---------------------------- MODULE Spec2Model ----------------------------
(***************************************************************************)
(* A model of the package installer of upython (src/install.py) and of     *)
(* the `dist` command of its command line (src/upython/upm/main.py).       *)
(*                                                                         *)
(* File names, paths, glob patterns and the text of the installed-files    *)
(* ledger are sequences of one-character strings, so that os.path.join,    *)
(* fnmatch and the writing and reading of the ledger are computed the way  *)
(* the code computes them.  The file system is a set of directories and a  *)
(* function from the paths of the regular files to their contents.         *)
(* Names never contain "/" or a line break.                                *)
(***************************************************************************)
EXTENDS Naturals, Sequences, FiniteSets, TLC

VARIABLES
  fs,      \* path of a regular file |-> its content
  dirs,    \* the paths of the directories that exist
  stack,   \* the call stack of the running Installer operation (frames)
  ret,     \* the value the frame popped last returned
  exc,     \* the exception in flight, "none" when there is none
  call,    \* the top-level call in progress, or the last one completed
  fs0,     \* fs when that call started
  dirs0,   \* dirs when that call started
  log,     \* what that call did so far, in order
  probe,   \* input and result of the pure file-filter functions
  other    \* a second invocation of the tool running at the same time, suspended

vars == <<fs, dirs, stack, ret, exc, call, fs0, dirs0, log, probe, other>>

---------------------------------------------------------------------------
(* Bounds of the model.                                                    *)

\* longest include/exclude pattern list drawn as an input of the filter
MaxPatterns == 2
\* number of unpack directories mkdtemp may have in existence at once
MaxTmp == 1
\* the calls made one after the other in one behaviour
MaxCalls == 3

---------------------------------------------------------------------------
(* Strings.                                                                *)

NL == "\n"
SEP == "/"

PACKAGE_JSON == <<"p", "a", "c", "k", "a", "g", "e", ".", "j", "s", "o", "n">>
PPYM_INSTALLED_FILES == <<".", "p", "p", "y", "m", "-", "i", "n", "s", "t", "a", "l", "l", "e", "d", "-", "f", "i", "l", "e", "s">>

default_exclude_patterns ==
  << <<".", "D", "S", "_", "S", "t", "o", "r", "e">>,
     <<".", "s", "v", "n", "/", "*">>,
     <<".", "g", "i", "t">>,
     <<".", "g", "i", "t", "/", "*">>,
     <<"p", "p", "y", "_", "m", "o", "d", "u", "l", "e", "s", "/", "*">>,
     <<"*", ".", "p", "y", "c">>,
     <<"*", ".", "p", "y", "o">>,
     <<"d", "i", "s", "t", "/", "*">> >>

\* the directory layout of a local-mode Installer
LOCAL_PACKAGES == <<"p", "p", "y", "_", "m", "o", "d", "u", "l", "e", "s">>
LOCAL_BIN == <<"p", "p", "y", "_", "m", "o", "d", "u", "l", "e", "s", "/", ".", "b", "i", "n">>
LOCAL_PYMODULES == <<"p", "p", "y", "_", "m", "o", "d", "u", "l", "e", "s", "/", ".", "p", "y", "m", "o", "d", "u", "l", "e", "s">>

---------------------------------------------------------------------------
(* Sequences and paths.                                                    *)

Range(s) == {s[i] : i \in 1..Len(s)}

IsPrefix(s, t) == Len(s) <= Len(t) /\ SubSeq(t, 1, Len(s)) = s

RECURSIVE SetToSeq(_)
SetToSeq(S) ==
  IF S = {} THEN <<>>
  ELSE LET x == CHOOSE y \in S : TRUE IN <<x>> \o SetToSeq(S \ {x})

\* the position of the last "/" of p, 0 when it has none
LastSep(p) ==
  IF \E i \in 1..Len(p) : p[i] = SEP
    THEN CHOOSE i \in 1..Len(p) : p[i] = SEP /\ \A j \in (i+1)..Len(p) : p[j] # SEP
    ELSE 0

\* os.path.join(a, b)
PathJoin(a, b) ==
  IF b # <<>> /\ b[1] = SEP THEN b
  ELSE IF a = <<>> \/ a[Len(a)] = SEP THEN a \o b
  ELSE a \o <<SEP>> \o b

\* os.path.dirname(p)
Dirname(p) ==
  LET i == LastSep(p) IN
  IF i = 0 THEN <<>> ELSE IF i = 1 THEN <<SEP>> ELSE SubSeq(p, 1, i - 1)

\* os.path.basename(p)
Basename(p) == SubSeq(p, LastSep(p) + 1, Len(p))

\* p lies below directory d
Under(d, p) == Len(p) > Len(d) + 1 /\ SubSeq(p, 1, Len(d) + 1) = d \o <<SEP>>

\* os.path.relpath(p, d) for a p below d
RelPath(p, d) == SubSeq(p, Len(d) + 2, Len(p))

\* p and the directories above it
RECURSIVE Ancestors(_)
Ancestors(p) ==
  IF p = <<>> \/ p = <<SEP>> THEN {}
  ELSE {p} \cup Ancestors(Dirname(p))

---------------------------------------------------------------------------
(* fnmatch.fnmatch on POSIX: "*" matches any run of characters ("/"        *)
(* included), "?" any one character, "[...]" one character of the set      *)
(* ("[!...]" one not of it), every other character itself.  A "[" that no  *)
(* "]" closes is an ordinary character.  Ranges in a set are not modelled. *)

\* the position of the "]" closing the set that opens at p[1] = "[", or 0
ClosingBracket(p) ==
  LET first == IF Len(p) >= 2 /\ p[2] = "!" THEN 3 ELSE 2
      from == IF Len(p) >= first /\ p[first] = "]" THEN first + 1 ELSE first
  IN IF \E j \in from..Len(p) : p[j] = "]"
       THEN CHOOSE j \in from..Len(p) : p[j] = "]" /\ \A k \in from..(j-1) : p[k] # "]"
       ELSE 0

RECURSIVE fnmatch(_, _)
fnmatch(s, p) ==
  IF p = <<>> THEN s = <<>>
  ELSE IF Head(p) = "*"
    THEN fnmatch(s, Tail(p)) \/ (s # <<>> /\ fnmatch(Tail(s), p))
  ELSE IF Head(p) = "?"
    THEN s # <<>> /\ fnmatch(Tail(s), Tail(p))
  ELSE IF Head(p) = "[" /\ ClosingBracket(p) # 0
    THEN LET j == ClosingBracket(p)
             neg == p[2] = "!"
             members == {p[k] : k \in (IF neg THEN 3 ELSE 2)..(j-1)}
         IN s # <<>>
            /\ ((Head(s) \in members) # neg)
            /\ fnmatch(Tail(s), SubSeq(p, j + 1, Len(p)))
  ELSE s # <<>> /\ Head(s) = Head(p) /\ fnmatch(Tail(s), Tail(p))

match_any_pattern(filename, patterns) ==
  \E i \in 1..Len(patterns) : fnmatch(filename, patterns[i])

\* a slip in the order of the tests: the include patterns are consulted first
check_include_file_IncludeFirst(filename, include_patterns, exclude_patterns) ==
  IF include_patterns # <<>> /\ match_any_pattern(filename, include_patterns)
    THEN TRUE
  ELSE IF match_any_pattern(filename, exclude_patterns) THEN FALSE
  ELSE include_patterns = <<>>

check_include_file(filename, include_patterns, exclude_patterns) ==
  IF match_any_pattern(filename, exclude_patterns) THEN FALSE
  ELSE IF include_patterns = <<>> THEN TRUE
  ELSE match_any_pattern(filename, include_patterns)

---------------------------------------------------------------------------
(* The world of the model: names, source directories and their files.      *)

N_FOO == <<"f", "o", "o">>
N_BAR == <<"b", "a", "r">>
N_BAZ == <<"b", "a", "z">>
N_RUN == <<"r", "u", "n">>
N_GO == <<"g", "o">>

\* the source directories of foo@1, foo@2 and bar@1
D_SF == <<"s", "f">>
D_SG == <<"s", "g">>
D_SB == <<"s", "b">>

F_A_TXT == <<"a", ".", "t", "x", "t">>
F_B_PY == <<"b", ".", "p", "y">>
F_C_TXT == <<"c", ".", "t", "x", "t">>
F_GIT_CONFIG == <<".", "g", "i", "t", "/", "c", "o", "n", "f", "i", "g">>
F_MAIN_PY == <<"m", "a", "i", "n", ".", "p", "y">>
F_N_TXT == <<"n", ".", "t", "x", "t">>
F_POST_PY == <<"p", "o", "s", "t", ".", "p", "y">>
F_README == <<"r", "e", "a", "d", "m", "e", ".", "m", "d">>
F_SRC_A == <<"s", "r", "c", "/", "a", ".", "p", "y">>
F_OTHER_A == <<"o", "t", "h", "e", "r", "/", "a", ".", "p", "y">>
F_DIST_X == <<"d", "i", "s", "t", "/", "x", ".", "t", "a", "r", ".", "g", "z">>

PAT_TXT == <<"*", ".", "t", "x", "t">>
PAT_SRC == <<"s", "r", "c", "/", "*">>
PAT_DIST == <<"d", "i", "s", "t", "/", "*">>
PAT_SET == <<"[", "a", "b", "]", ".", "*">>

S_DIST == <<"d", "i", "s", "t">>
S_TAR_GZ == <<".", "t", "a", "r", ".", "g", "z">>
S_TMP == <<"/", "t", "m", "p", "/", "u">>
S_REQUESTS == <<"r", "e", "q", "u", "e", "s", "t", "s">>
S_GE2 == <<">", "=", "2", ".", "0">>

\* a version as it is written in a file name
VersionText(v) == IF v = 1 THEN <<"1">> ELSE IF v = 2 THEN <<"2">> ELSE <<"0">>

Versions == {1, 2}
\* a version selector is the set of the versions it matches; "*" matches all
AnyVersion == Versions

---------------------------------------------------------------------------
(* File contents.                                                          *)

Data(n) == [kind |-> "data", v |-> n]
InvalidManifestFile == [kind |-> "invalid"]
Text(t) == [kind |-> "text", text |-> t]
Tar(members) == [kind |-> "tar", members |-> members]
Launcher(what, argv) == [kind |-> "launcher", what |-> what, argv |-> argv]

ManifestFile(name, version, dependencies, python_dependencies, include_files, script, bin, postinstall) ==
  [kind |-> "manifest", name |-> name, version |-> version,
   dependencies |-> dependencies, python_dependencies |-> python_dependencies,
   include_files |-> include_files, script |-> script, bin |-> bin,
   postinstall |-> postinstall]

\* require.session.get_manifest(filename): the manifest with its directory,
\* or the exception raised
get_manifest(files, filename) ==
  IF filename \notin DOMAIN files THEN [status |-> "FileNotFoundError"]
  ELSE IF files[filename].kind # "manifest" THEN [status |-> "InvalidPackageManifest"]
  ELSE [status |-> "ok", manifest |-> files[filename], directory |-> Dirname(filename)]

---------------------------------------------------------------------------
(* walk_package_files: the (source path, relative path) pairs of the files *)
(* of a package that are installed and packed.                             *)

walk_exclude_patterns(manifest) == manifest.include_files \o default_exclude_patterns

walk_include_patterns(manifest) == manifest.include_files

walk_selects(rel, manifest) ==
  rel = PACKAGE_JSON
  \/ check_include_file(rel, walk_include_patterns(manifest), walk_exclude_patterns(manifest))

\* the relative paths walk_package_files yields for the package in `directory`
walk_rels(files, directory, manifest) ==
  {RelPath(p, directory) : p \in {q \in DOMAIN files : Under(directory, q)
                                     /\ walk_selects(RelPath(q, directory), manifest)}}

\* lines 80-85: os.walk goes top-down, the files of the directory itself
\* come before those of its subdirectories
walk_package_files(files, directory, manifest) ==
  LET selected == walk_rels(files, directory, manifest)
      top == {r \in selected : LastSep(r) = 0}
      rels == SetToSeq(top) \o SetToSeq(selected \ top)
  IN [i \in 1..Len(rels) |-> [src |-> PathJoin(directory, rels[i]), rel |-> rels[i]]]

---------------------------------------------------------------------------
(* The Installer: its directory layout and the file system it works on.    *)

GLOBAL_PREFIX == <<"/", "g">>
S_PPY_MODULES == <<"p", "p", "y", "_", "m", "o", "d", "u", "l", "e", "s">>
S_BIN == <<"b", "i", "n">>
S_PYMODULES == <<"p", "y", "m", "o", "d", "u", "l", "e", "s">>
S_UNPACKED == <<"_", "u", "n", "p", "a", "c", "k", "e", "d">>

\* Installer.__init__: the directories of an Installer
InstallerDirs(inst) ==
  IF inst.global_
    THEN [packages |-> PathJoin(GLOBAL_PREFIX, S_PPY_MODULES),
          bin |-> PathJoin(GLOBAL_PREFIX, S_BIN),
          python_modules |-> PathJoin(GLOBAL_PREFIX, S_PYMODULES)]
    ELSE [packages |-> LOCAL_PACKAGES, bin |-> LOCAL_BIN,
          python_modules |-> LOCAL_PYMODULES]

IsFile(files, p) == p \in DOMAIN files
IsDir(ds, p) == p \in ds
Exists(files, ds, p) == IsFile(files, p) \/ IsDir(ds, p)

\* _makedirs(path): the directories afterwards
makedirs(ds, path) == IF IsDir(ds, path) THEN ds ELSE ds \cup Ancestors(path)

\* open(path, "w") or shutil.copyfile(.., path): the files afterwards
WriteFile(files, path, content) ==
  [q \in DOMAIN files \cup {path} |-> IF q = path THEN content ELSE files[q]]

\* os.remove(path) where an OSError is caught: the files afterwards
RemoveFile(files, path) == [q \in DOMAIN files \ {path} |-> files[q]]

\* shutil.rmtree(directory): the files and the directories afterwards
rmtree_files(files, directory) ==
  [q \in {r \in DOMAIN files : ~Under(directory, r)} |-> files[q]]
rmtree_dirs(ds, directory) == {d \in ds : d # directory /\ ~Under(directory, d)}

\* the files below a directory, as paths relative to it
FilesBelow(files, directory) ==
  {RelPath(q, directory) : q \in {r \in DOMAIN files : Under(directory, r)}}

---------------------------------------------------------------------------
(* The installed-files ledger: one path per line.                          *)

\* lines 318-321: fp.write(fn); fp.write('\n') for every installed file
RECURSIVE ledger_text(_)
ledger_text(installed_files) ==
  IF installed_files = <<>> THEN <<>>
  ELSE Head(installed_files) \o <<NL>> \o ledger_text(Tail(installed_files))

FirstNL(text) ==
  IF \E i \in 1..Len(text) : text[i] = NL
    THEN CHOOSE i \in 1..Len(text) : text[i] = NL /\ \A j \in 1..(i-1) : text[j] # NL
    ELSE 0

\* `for line in fp`: the lines of a text, each with its line break
RECURSIVE file_lines(_)
file_lines(text) ==
  IF text = <<>> THEN <<>>
  ELSE LET i == FirstNL(text) IN
       IF i = 0 THEN <<text>>
       ELSE <<SubSeq(text, 1, i)>> \o file_lines(SubSeq(text, i + 1, Len(text)))

\* line.rstrip('\n')
RECURSIVE rstrip_nl(_)
rstrip_nl(line) ==
  IF line # <<>> /\ line[Len(line)] = NL
    THEN rstrip_nl(SubSeq(line, 1, Len(line) - 1))
    ELSE line

\* the line is taken as it was read, with its line break
ledger_entry_Unstripped(line) == line

\* line 173: one entry of installed_files
ledger_entry(line) == rstrip_nl(line)

\* lines 166-173: the paths uninstall_directory reads from the ledger
read_ledger(files, directory) ==
  LET filelist_fn == PathJoin(directory, PPYM_INSTALLED_FILES) IN
  IF ~IsFile(files, filelist_fn) \/ files[filelist_fn].kind # "text" THEN <<>>
  ELSE LET lines == file_lines(files[filelist_fn].text)
       IN [i \in 1..Len(lines) |-> ledger_entry(lines[i])]

\* the listed files are left where they are
remove_listed_None(files, installed_files) == files

\* lines 175-179: os.remove of every listed file, errors reported and ignored
RECURSIVE remove_listed(_, _)
remove_listed(files, installed_files) ==
  IF installed_files = <<>> THEN files
  ELSE remove_listed(RemoveFile(files, Head(installed_files)), Tail(installed_files))

---------------------------------------------------------------------------
(* Collaborators whose code is not part of the sources: the module         *)
(* resolution session, the script generator, the registry client, tarfile. *)

\* require.session.resolve(package): the package directories searched are
\* the local packages directory, then the global one
ResolveChain == <<LOCAL_PACKAGES, PathJoin(GLOBAL_PREFIX, S_PPY_MODULES)>>

Resolve(ds, package) ==
  IF \E i \in 1..Len(ResolveChain) : IsDir(ds, PathJoin(ResolveChain[i], package))
    THEN LET i == CHOOSE k \in 1..Len(ResolveChain) :
                    /\ IsDir(ds, PathJoin(ResolveChain[k], package))
                    /\ \A j \in 1..(k-1) : ~IsDir(ds, PathJoin(ResolveChain[j], package))
         IN [status |-> "ok", directory |-> PathJoin(ResolveChain[i], package)]
    ELSE [status |-> "ResolveError", directory |-> <<>>]

\* _script.make_command_script and _script.make_ppy_runner: one launcher
\* file named after the script in the bin directory
LauncherPath(bindir, script_name) == PathJoin(bindir, script_name)

\* the versions of each package the registry serves
RegistryIndex(name) ==
  IF name = N_FOO THEN {1, 2} ELSE IF name = N_BAR THEN {1} ELSE {}

\* tempfile.mkdtemp(suffix='_' + basename(archive) + '_unpacked'), the i-th
\* name it may draw
TmpDigit(i) == IF i = 0 THEN <<"0">> ELSE IF i = 1 THEN <<"1">> ELSE <<"2">>
TmpName(i, archive) ==
  S_TMP \o TmpDigit(i) \o <<"_">> \o Basename(archive) \o S_UNPACKED

---------------------------------------------------------------------------
(* Installer.find_package (lines 113-136).                                 *)

\* the resolution session is asked whatever the flag
find_package_filename_NeverStrict(ds, inst, package) ==
  LET module == Resolve(ds, package) IN
  IF module.status = "ok" THEN PathJoin(module.directory, PACKAGE_JSON) ELSE <<>>

\* lines 123-131: the manifest file find_package looks at
find_package_filename(ds, inst, package) ==
  IF inst.strict
    THEN PathJoin(PathJoin(InstallerDirs(inst).packages, package), PACKAGE_JSON)
    ELSE LET module == Resolve(ds, package) IN
         IF module.status = "ok" THEN PathJoin(module.directory, PACKAGE_JSON)
         ELSE <<>>

find_package(files, ds, inst, package) ==
  LET filename == find_package_filename(ds, inst, package) IN
  IF filename # <<>> /\ IsFile(files, filename)
    THEN get_manifest(files, filename)
    ELSE [status |-> "PackageNotFound"]

---------------------------------------------------------------------------
(* The packages of the model and the file system at the start.             *)

Dep(name, selector) == [name |-> name, selector |-> selector]

FooManifest1 ==
  ManifestFile(N_FOO, 1, <<>>, <<>>, <<>>,
               <<[name |-> N_RUN, command |-> F_B_PY]>>, <<>>, <<>>)
FooManifest2 ==
  ManifestFile(N_FOO, 2, <<>>, <<>>, <<>>,
               <<>>, <<[name |-> N_GO, filename |-> F_C_TXT]>>, F_SRC_A)
BarManifest ==
  ManifestFile(N_BAR, 1, <<Dep(N_FOO, {2})>>, <<[name |-> S_REQUESTS, spec |-> S_GE2]>>,
               <<PAT_TXT>>, <<>>, <<[name |-> N_RUN, filename |-> F_MAIN_PY]>>, F_POST_PY)
BazManifest ==
  ManifestFile(N_BAZ, 1, <<>>, <<>>, <<>>, <<>>, <<>>, <<>>)

GLOBAL_BAZ == PathJoin(PathJoin(GLOBAL_PREFIX, S_PPY_MODULES), N_BAZ)

\* three source directories, one with a subdirectory, and baz@1 installed
\* globally before
InitFiles ==
  LET tree ==
        {<<PathJoin(D_SF, PACKAGE_JSON), FooManifest1>>,
         <<PathJoin(D_SF, F_A_TXT), Data(1)>>,
         <<PathJoin(D_SF, F_B_PY), Data(2)>>,
         <<PathJoin(D_SF, F_GIT_CONFIG), Data(3)>>,
         <<PathJoin(D_SG, PACKAGE_JSON), FooManifest2>>,
         <<PathJoin(D_SG, F_C_TXT), Data(4)>>,
         <<PathJoin(D_SG, F_SRC_A), Data(7)>>,
         <<PathJoin(D_SB, PACKAGE_JSON), BarManifest>>,
         <<PathJoin(D_SB, F_MAIN_PY), Data(5)>>,
         <<PathJoin(D_SB, F_N_TXT), Data(6)>>,
         <<PathJoin(GLOBAL_BAZ, PACKAGE_JSON), BazManifest>>,
         <<PathJoin(GLOBAL_BAZ, PPYM_INSTALLED_FILES),
           Text(ledger_text(<<PathJoin(GLOBAL_BAZ, PACKAGE_JSON)>>))>>}
  IN [p \in {e[1] : e \in tree} |-> (CHOOSE e \in tree : e[1] = p)[2]]

\* dist: make_package_archive_name(name, version), below the dist directory
ArchiveName(name, version) == name \o <<"-">> \o VersionText(version) \o S_TAR_GZ
ArchivePath(directory, manifest) ==
  PathJoin(PathJoin(directory, S_DIST), ArchiveName(manifest.name, manifest.version))

---------------------------------------------------------------------------
(* Frames of the call stack.                                               *)

NoExpect == [name |-> <<>>, version |-> 0]
NoManifest == ManifestFile(<<>>, 0, <<>>, <<>>, <<>>, <<>>, <<>>, <<>>)

Frame0 ==
  [fn |-> "none", pc |-> "start", directory |-> <<>>, expect |-> NoExpect,
   manifest |-> NoManifest, target_dir |-> <<>>, todo |-> <<>>,
   installed_files |-> <<>>, deps |-> <<>>, queue |-> <<>>,
   name |-> <<>>, selector |-> {}, archive |-> <<>>]

Frame(fn) == [Frame0 EXCEPT !.fn = fn]

Top == stack[Len(stack)]
Popped == SubSeq(stack, 1, Len(stack) - 1)
WithTop(f) == [stack EXCEPT ![Len(stack)] = f]
Pushed(f, callee) == Append(WithTop(f), callee)

\* the top frame is in function fn at position pc and no exception is in flight
At(fn, pc) == stack # <<>> /\ exc = "none" /\ Top.fn = fn /\ Top.pc = pc

Event(ev, a, b) == [ev |-> ev, a |-> a, b |-> b]

\* no top-level call was made yet
NoInst == [upgrade |-> FALSE, strict |-> FALSE, global_ |-> FALSE]
NoCall == [op |-> "none", inst |-> NoInst, frame |-> Frame0, n |-> 0]

\* what is kept of an invocation while the other one runs; NoOther when the
\* tool runs alone
NoOther == [stack |-> <<>>, ret |-> "none", exc |-> "none", call |-> NoCall, log |-> <<>>]

---------------------------------------------------------------------------
(* The file filter as a function of its inputs: a probe is either one call *)
(* of _check_include_file on a path and two pattern lists, or one walk of  *)
(* a package directory holding package.json and some more files.           *)

ProbePaths ==
  {PACKAGE_JSON, F_A_TXT, F_B_PY, F_GIT_CONFIG, F_README, F_SRC_A, F_OTHER_A, F_DIST_X}
ProbePatterns == {PAT_TXT, PAT_SRC, PAT_DIST, PAT_SET}
ProbeFiles == {F_A_TXT, F_B_PY, F_GIT_CONFIG, F_SRC_A}
PatternLists == UNION {[1..n -> ProbePatterns] : n \in 0..MaxPatterns}

NoFiles == [p \in {} |-> Data(0)]

ProbeManifest(includes) ==
  ManifestFile(N_FOO, 1, <<>>, <<>>, includes, <<>>, <<>>, <<>>)

\* the package directory D_SF of a walk probe
ProbeTree(files, includes) ==
  [p \in {PathJoin(D_SF, r) : r \in files \cup {PACKAGE_JSON}} |->
     IF p = PathJoin(D_SF, PACKAGE_JSON) THEN ProbeManifest(includes) ELSE Data(1)]

CheckProbes ==
  {[kind |-> "check", path |-> p, includes |-> i, excludes |-> e, files |-> {},
    done |-> FALSE, ok |-> FALSE, yielded |-> {}] :
     p \in ProbePaths, i \in PatternLists, e \in PatternLists}

WalkProbes ==
  {[kind |-> "walk", path |-> <<>>, includes |-> i, excludes |-> <<>>, files |-> f,
    done |-> FALSE, ok |-> FALSE, yielded |-> {}] :
     i \in PatternLists, f \in SUBSET ProbeFiles}

NoProbe ==
  [kind |-> "none", path |-> <<>>, includes |-> <<>>, excludes |-> <<>>, files |-> {},
   done |-> FALSE, ok |-> FALSE, yielded |-> {}]

InitFilter ==
  /\ probe \in CheckProbes \cup WalkProbes
  /\ fs = IF probe.kind = "walk" THEN ProbeTree(probe.files, probe.includes) ELSE NoFiles
  /\ dirs = UNION {Ancestors(Dirname(p)) : p \in DOMAIN fs}
  /\ stack = <<>>
  /\ ret = "none"
  /\ exc = "none"
  /\ call = NoCall
  /\ fs0 = fs
  /\ dirs0 = dirs
  /\ log = <<>>
  /\ other = NoOther

DoCheck ==
  /\ probe.kind = "check" /\ ~probe.done
  /\ probe' = [probe EXCEPT !.done = TRUE,
                 !.ok = check_include_file(probe.path, probe.includes, probe.excludes)]
  /\ UNCHANGED <<fs, dirs, stack, ret, exc, call, fs0, dirs0, log, other>>

DoWalk ==
  /\ probe.kind = "walk" /\ ~probe.done
  /\ LET got == get_manifest(fs, PathJoin(D_SF, PACKAGE_JSON))
         walked == walk_package_files(fs, got.directory, got.manifest)
     IN probe' = [probe EXCEPT !.done = TRUE,
                    !.yielded = {walked[i].rel : i \in 1..Len(walked)}]
  /\ UNCHANGED <<fs, dirs, stack, ret, exc, call, fs0, dirs0, log, other>>

NextFilter == DoCheck \/ DoWalk

SpecFilter == InitFilter /\ [][NextFilter]_vars

---------------------------------------------------------------------------
(* The Installer as a state machine.                                       *)

Idle == stack = <<>>

Init ==
  /\ fs = InitFiles
  /\ dirs = UNION {Ancestors(Dirname(p)) : p \in DOMAIN InitFiles}
  /\ stack = <<>>
  /\ ret = "none"
  /\ exc = "none"
  /\ call = NoCall
  /\ fs0 = fs
  /\ dirs0 = dirs
  /\ log = <<>>
  /\ probe = NoProbe
  /\ other = NoOther

\* a top-level call starts: a new Installer with its flags, a first frame
Begin(op, inst, frame) ==
  /\ Idle
  /\ other = NoOther
  /\ probe.kind = "none"
  /\ stack' = <<frame>>
  /\ ret' = "none"
  /\ exc' = "none"
  /\ call.n < MaxCalls
  /\ call' = [op |-> op, inst |-> inst, frame |-> frame, n |-> call.n + 1]
  /\ fs0' = fs
  /\ dirs0' = dirs
  /\ log' = <<>>
  /\ UNCHANGED <<fs, dirs, probe, other>>

\* `return v`
Return(v) == stack' = Popped /\ ret' = v /\ exc' = exc
\* `raise e` out of a function that has no handler for it
Raise(e) == stack' = Popped /\ ret' = ret /\ exc' = e
\* go on in the same function
Goto(f, pc) == stack' = WithTop([f EXCEPT !.pc = pc]) /\ ret' = ret /\ exc' = exc
\* call a function of the Installer and go on at pc when it returns
Call(f, pc, callee) ==
  stack' = Pushed([f EXCEPT !.pc = pc], callee) /\ ret' = ret /\ exc' = exc

---------------------------------------------------------------------------
(* The calls a user makes (upm install, upm uninstall, or the methods of   *)
(* an Installer), each with a new Installer.                               *)

Configs == [upgrade : BOOLEAN, strict : BOOLEAN, global_ : BOOLEAN]

D_SF_GIT == Dirname(PathJoin(D_SF, F_GIT_CONFIG))
InstallDirectories == {D_SF, D_SG, D_SB, D_SF_GIT}
Expects == {NoExpect, [name |-> N_FOO, version |-> 2]}
Archives ==
  {ArchivePath(D_SF, FooManifest1), ArchivePath(D_SG, FooManifest2),
   ArchivePath(D_SB, BarManifest), PathJoin(D_SF, F_A_TXT)}
DependencyLists ==
  {<<Dep(N_FOO, {1})>>, <<Dep(N_FOO, AnyVersion), Dep(N_BAZ, {1})>>,
   <<Dep(N_BAZ, {2}), Dep(N_BAR, AnyVersion)>>}
PackageDirectories(inst) ==
  {PathJoin(InstallerDirs(inst).packages, n) : n \in {N_FOO, N_BAR}}

CallInstallFromDirectory ==
  \E inst \in Configs, directory \in InstallDirectories, expect \in Expects :
    Begin("install_from_directory", inst,
          [Frame("install_from_directory") EXCEPT !.directory = directory,
                                                  !.expect = expect])

CallInstallFromArchive ==
  \E inst \in Configs, archive \in Archives :
    Begin("install_from_archive", inst,
          [Frame("install_from_archive") EXCEPT !.archive = archive])

CallInstallFromRegistry ==
  \E inst \in Configs, name \in {N_FOO, N_BAZ}, selector \in {AnyVersion, {2}} :
    Begin("install_from_registry", inst,
          [Frame("install_from_registry") EXCEPT !.name = name, !.selector = selector])

CallInstallDependencies ==
  \E inst \in Configs, deps \in DependencyLists :
    Begin("install_dependencies", inst,
          [Frame("install_dependencies") EXCEPT !.deps = deps])

CallUninstall ==
  \E inst \in Configs, name \in {N_FOO, N_BAR, N_BAZ} :
    Begin("uninstall", inst, [Frame("uninstall") EXCEPT !.name = name])

CallUninstallDirectory ==
  \E inst \in Configs :
    \E directory \in PackageDirectories(inst) :
      Begin("uninstall_directory", inst,
            [Frame("uninstall_directory") EXCEPT !.directory = directory])

---------------------------------------------------------------------------
(* Installer.install_from_directory (lines 255-333).                       *)

\* the target directory is removed and installed anew whatever the flag
ifd_existing_AlwaysReinstall(upgrade) == "uninstall"

\* lines 284-289: what is done when the target directory exists
ifd_existing(upgrade) == IF ~upgrade THEN "skip" ELSE "uninstall"

\* only the name is compared
expect_mismatch_NameOnly(expect, manifest) ==
  expect # NoExpect /\ manifest.name # expect.name

\* line 272: expect is given and is not the manifest's (name, version)
expect_mismatch(expect, manifest) ==
  expect # NoExpect /\ [name |-> manifest.name, version |-> manifest.version] # expect

\* lines 265-289: parse the manifest, check `expect`, look at the target
IFD_Start ==
  /\ At("install_from_directory", "start")
  /\ LET f == Top
         got == get_manifest(fs, PathJoin(f.directory, PACKAGE_JSON))
     IN IF got.status # "ok" THEN Return("False")
        ELSE IF expect_mismatch(f.expect, got.manifest) THEN Return("False")
        ELSE LET target_dir == PathJoin(InstallerDirs(call.inst).packages, got.manifest.name)
                 g == [f EXCEPT !.manifest = got.manifest, !.target_dir = target_dir]
             IN IF ~Exists(fs, dirs, target_dir) THEN Goto(g, "deps")
                ELSE IF ifd_existing(call.inst.upgrade) = "skip" THEN Return("True")
                ELSE Call(g, "uninstalled",
                          [Frame("uninstall_directory") EXCEPT !.directory = target_dir])
  /\ UNCHANGED <<fs, dirs, call, fs0, dirs0, log, probe, other>>

\* lines 288-289
IFD_Uninstalled ==
  /\ At("install_from_directory", "uninstalled")
  /\ IF ret = "False" THEN Return("False") ELSE Goto(Top, "deps")
  /\ UNCHANGED <<fs, dirs, call, fs0, dirs0, log, probe, other>>

\* line 292: the call of install_dependencies_for
IFD_Deps ==
  /\ At("install_from_directory", "deps")
  /\ Call(Top, "deps_done",
          [Frame("install_dependencies_for") EXCEPT !.manifest = Top.manifest])
  /\ UNCHANGED <<fs, dirs, call, fs0, dirs0, log, probe, other>>

\* the package is installed whatever became of its dependencies
ifd_after_deps_Ignore(result) == "install"

\* lines 292-293: a failure of install_dependencies_for ends the install
ifd_after_deps(result) == IF result = "False" THEN "abort" ELSE "install"

\* lines 292-293; the log keeps a failure of the dependencies
IFD_DepsDone ==
  /\ At("install_from_directory", "deps_done")
  /\ IF ifd_after_deps(ret) = "abort" THEN Return("False") ELSE Goto(Top, "makedirs")
  /\ log' = IF ret = "False" THEN Append(log, Event("deps_failed", Top.target_dir, <<>>))
                             ELSE log
  /\ UNCHANGED <<fs, dirs, call, fs0, dirs0, probe, other>>

\* lines 295-299: create the target directory, start the walk
IFD_Makedirs ==
  /\ At("install_from_directory", "makedirs")
  /\ LET f == Top
         todo == walk_package_files(fs, f.directory, f.manifest)
     IN Goto([f EXCEPT !.todo = todo, !.installed_files = <<>>],
             IF todo = <<>> THEN "scripts" ELSE "copy")
  /\ dirs' = makedirs(dirs, Top.target_dir)
  /\ log' = Append(log, Event("makedirs", Top.target_dir, <<>>))
  /\ UNCHANGED <<fs, call, fs0, dirs0, probe, other>>

\* lines 299-304: copy one file
IFD_Copy ==
  /\ At("install_from_directory", "copy")
  /\ LET f == Top
         e == Head(f.todo)
         dst == PathJoin(f.target_dir, e.rel)
     IN /\ dirs' = makedirs(dirs, Dirname(dst))
        /\ fs' = WriteFile(fs, dst, fs[e.src])
        /\ log' = Append(log, Event("copy", dst, e.src))
        /\ Goto([f EXCEPT !.todo = Tail(f.todo),
                          !.installed_files = Append(f.installed_files, dst)],
                IF Tail(f.todo) = <<>> THEN "scripts" ELSE "copy")
  /\ UNCHANGED <<call, fs0, dirs0, probe, other>>

\* the launchers of a manifest: those of `script`, then those of `bin`
launcher_entries(manifest, target_dir) ==
  [i \in 1..Len(manifest.script) |->
     [name |-> manifest.script[i].name,
      content |-> Launcher("command", manifest.script[i].command)]]
  \o
  [i \in 1..Len(manifest.bin) |->
     [name |-> manifest.bin[i].name,
      content |-> Launcher("ppy", PathJoin(target_dir, manifest.bin[i].filename))]]

RECURSIVE write_launchers(_, _, _)
write_launchers(files, bindir, entries) ==
  IF entries = <<>> THEN files
  ELSE write_launchers(WriteFile(files, LauncherPath(bindir, Head(entries).name),
                                 Head(entries).content),
                       bindir, Tail(entries))

\* lines 309-310 and 314-315: the paths added to installed_files
recorded_launchers(bindir, entries) ==
  [i \in 1..Len(entries) |-> LauncherPath(bindir, entries[i].name)]

\* lines 306-315: generate the launchers in the bin directory
IFD_Scripts ==
  /\ At("install_from_directory", "scripts")
  /\ LET f == Top
         bindir == InstallerDirs(call.inst).bin
         entries == launcher_entries(f.manifest, f.target_dir)
     IN /\ fs' = write_launchers(fs, bindir, entries)
        /\ dirs' = IF entries = <<>> THEN dirs ELSE makedirs(dirs, bindir)
        /\ log' = IF entries = <<>> THEN log
                  ELSE Append(log, Event("scripts", bindir, recorded_launchers(bindir, entries)))
        /\ Goto([f EXCEPT !.installed_files =
                            f.installed_files \o recorded_launchers(bindir, entries)],
                "ledger")
  /\ UNCHANGED <<call, fs0, dirs0, probe, other>>

\* the ledger is opened for appending: what it listed before is kept
written_ledger_Appended(files, filelist_fn, installed_files) ==
  IF IsFile(files, filelist_fn) /\ files[filelist_fn].kind = "text"
    THEN Text(files[filelist_fn].text \o ledger_text(installed_files))
    ELSE Text(ledger_text(installed_files))

\* lines 318-321: open(filelist_fn, 'w') truncates the ledger, then one line
\* is written for each installed file
written_ledger(files, filelist_fn, installed_files) == Text(ledger_text(installed_files))

\* lines 317-321: write the ledger; open() fails when the target directory
\* is not there any more
IFD_Ledger ==
  /\ At("install_from_directory", "ledger")
  /\ LET f == Top
         filelist_fn == PathJoin(f.target_dir, PPYM_INSTALLED_FILES)
     IN IF ~IsDir(dirs, f.target_dir)
          THEN Raise("FileNotFoundError") /\ UNCHANGED <<fs, log>>
          ELSE /\ fs' = WriteFile(fs, filelist_fn,
                                  written_ledger(fs, filelist_fn, f.installed_files))
               /\ log' = Append(log, Event("ledger", filelist_fn, f.installed_files))
               /\ Goto(f, "postinstall")
  /\ UNCHANGED <<dirs, call, fs0, dirs0, probe, other>>

\* lines 323-333: `upython` is no name of the module, so upython.main.run
\* raises NameError, which `except BaseException` catches
IFD_Postinstall ==
  /\ At("install_from_directory", "postinstall")
  /\ IF Top.manifest.postinstall # <<>>
       THEN /\ Return("False")
            /\ log' = Append(log, Event("postinstall",
                                        PathJoin(Top.target_dir, Top.manifest.postinstall),
                                        "NameError"))
       ELSE Return("True") /\ log' = log
  /\ UNCHANGED <<fs, dirs, call, fs0, dirs0, probe, other>>

---------------------------------------------------------------------------
(* Installer.install_dependencies_for (lines 183-197), with                *)
(* install_python_dependencies (lines 229-253).                            *)

IDF_Start ==
  /\ At("install_dependencies_for", "start")
  /\ IF Top.manifest.dependencies # <<>>
       THEN Call(Top, "deps_done",
                 [Frame("install_dependencies") EXCEPT !.deps = Top.manifest.dependencies])
       ELSE Goto(Top, "python")
  /\ UNCHANGED <<fs, dirs, call, fs0, dirs0, log, probe, other>>

IDF_DepsDone ==
  /\ At("install_dependencies_for", "deps_done")
  /\ IF ret = "False" THEN Return("False") ELSE Goto(Top, "python")
  /\ UNCHANGED <<fs, dirs, call, fs0, dirs0, log, probe, other>>

\* lines 234-236: name + version for every Python dependency
pip_modules(deps) == [i \in 1..Len(deps) |-> deps[i].name \o deps[i].spec]

\* pip installs the modules below python_modules, or fails
IDF_Python ==
  /\ At("install_dependencies_for", "python")
  /\ LET modules == pip_modules(Top.manifest.python_dependencies)
         target == InstallerDirs(call.inst).python_modules
     IN IF modules = <<>>
          THEN Return("True") /\ UNCHANGED <<fs, dirs, log>>
          ELSE \E res \in {0, 1} :
                 /\ log' = Append(log, Event("pip", target, modules))
                 /\ IF res # 0
                      THEN Return("False") /\ UNCHANGED <<fs, dirs>>
                      ELSE /\ Return("True")
                           /\ dirs' = makedirs(dirs, target)
                           /\ fs' = WriteFile(fs, PathJoin(target, S_REQUESTS), Data(0))
  /\ UNCHANGED <<call, fs0, dirs0, probe, other>>

---------------------------------------------------------------------------
(* Installer.install_dependencies (lines 199-227).                         *)

\* every dependency is queued, installed or not
install_deps_All(files, ds, inst, deps) == deps

\* lines 204-216: the dependencies find_package does not find
install_deps(files, ds, inst, deps) ==
  SelectSeq(deps, LAMBDA d : find_package(files, ds, inst, d.name).status = "PackageNotFound")

ID_Scan ==
  /\ At("install_dependencies", "start")
  /\ LET f == Top
         queue == install_deps(fs, dirs, call.inst, f.deps)
     IN IF \E i \in 1..Len(f.deps) :
               find_package(fs, dirs, call.inst, f.deps[i].name).status = "InvalidPackageManifest"
          THEN Raise("InvalidPackageManifest")
        ELSE IF queue = <<>> THEN Return("True")
        ELSE Goto([f EXCEPT !.queue = queue], "loop")
  /\ UNCHANGED <<fs, dirs, call, fs0, dirs0, log, probe, other>>

\* line 224: the selector install_from_registry is called with
queued_selector(deps, entry) == entry.selector

\* lines 218-227: one turn of the loop over the queue.  At "called" the call
\* made in the turn before has returned: its value is tested first.
ID_Loop ==
  /\ stack # <<>> /\ exc = "none"
  /\ Top.fn = "install_dependencies" /\ Top.pc \in {"loop", "called"}
  /\ LET f == Top
         rest == IF f.pc = "called" THEN Tail(f.queue) ELSE f.queue
     IN IF f.pc = "called" /\ ret = "False" THEN Return("False") /\ log' = log
        ELSE IF rest = <<>> THEN Return("True") /\ log' = log
        ELSE LET entry == Head(rest)
                 selector == queued_selector(f.deps, entry)
             IN /\ Call([f EXCEPT !.queue = rest], "called",
                        [Frame("install_from_registry") EXCEPT !.name = entry.name,
                                                               !.selector = selector])
                /\ log' = Append(log, Event("install_from_registry", entry.name, selector))
  /\ UNCHANGED <<fs, dirs, call, fs0, dirs0, probe, other>>

---------------------------------------------------------------------------
(* Installer.install_from_registry (lines 349-384).                        *)

\* an installed version the selector rejects is installed anew
ifr_returns_early_IfSatisfied(version, selector, upgrade) ==
  ~upgrade /\ version \in selector

\* lines 360-366: a mismatch of the installed version is a warning only, and
\* without upgrade the installed package is left as it is
ifr_returns_early(version, selector, upgrade) == ~upgrade

\* lines 354-366: the package is looked up among the installed ones
IFR_Start ==
  /\ At("install_from_registry", "start")
  /\ LET package == find_package(fs, dirs, call.inst, Top.name)
     IN IF package.status = "InvalidPackageManifest" THEN Raise("InvalidPackageManifest")
        ELSE IF /\ package.status = "ok"
                /\ ifr_returns_early(package.manifest.version, Top.selector, call.inst.upgrade)
          THEN Return("True")
        ELSE Goto(Top, "reg_find")
  /\ UNCHANGED <<fs, dirs, call, fs0, dirs0, log, probe, other>>

\* lines 368-370: the registry is asked for a version the selector matches
IFR_Find ==
  /\ At("install_from_registry", "reg_find")
  /\ log' = Append(log, Event("reg.find_package", Top.name, Top.selector))
  /\ IF RegistryIndex(Top.name) \cap Top.selector = {}
       THEN Raise("NotFoundOnRegistry")
       ELSE Goto(Top, "download")
  /\ UNCHANGED <<fs, dirs, call, fs0, dirs0, probe, other>>

\* lines 372-374: the download is requested, which may fail; line 374 then
\* reads `download`, which is no name of the module (the module is bound to
\* `_download` in line 35): NameError, before the temporary file is made
IFR_Download ==
  /\ At("install_from_registry", "download")
  /\ log' = Append(log, Event("reg.download", Top.name, Top.selector))
  /\ \E e \in {"RegistryError", "NameError"} : Raise(e)
  /\ UNCHANGED <<fs, dirs, call, fs0, dirs0, probe, other>>

---------------------------------------------------------------------------
(* Installer.install_from_archive (lines 335-347).                         *)

\* line 340: a new directory for the unpacked archive
IFA_Start ==
  /\ At("install_from_archive", "start")
  /\ \E i \in 0..(MaxTmp - 1) :
       LET directory == TmpName(i, Top.archive) IN
       /\ ~Exists(fs, dirs, directory)
       /\ \A j \in 0..(i - 1) : Exists(fs, dirs, TmpName(j, Top.archive))
       /\ dirs' = dirs \cup {directory}
       /\ log' = Append(log, Event("mkdtemp", directory, <<>>))
       /\ Goto([Top EXCEPT !.directory = directory], "extract")
  /\ UNCHANGED <<fs, call, fs0, dirs0, probe, other>>

\* tar.extractall(directory): the files and directories afterwards
RECURSIVE extract_files(_, _, _, _)
extract_files(files, directory, members, rels) ==
  IF rels = <<>> THEN files
  ELSE extract_files(WriteFile(files, PathJoin(directory, Head(rels)), members[Head(rels)]),
                     directory, members, Tail(rels))
extract_dirs(ds, directory, members) ==
  ds \cup UNION {Ancestors(Dirname(PathJoin(directory, r))) : r \in DOMAIN members}

\* lines 342-345: unpack, then install from the unpacked directory.  An
\* archive tarfile cannot read raises inside the try statement.
IFA_Extract ==
  /\ At("install_from_archive", "extract")
  /\ LET f == Top IN
     IF ~IsFile(fs, f.archive) \/ fs[f.archive].kind # "tar"
       THEN /\ stack' = WithTop([f EXCEPT !.pc = "finally"])
            /\ exc' = IF IsFile(fs, f.archive) THEN "ReadError" ELSE "FileNotFoundError"
            /\ ret' = ret
            /\ UNCHANGED <<fs, dirs>>
       ELSE LET members == fs[f.archive].members IN
            /\ fs' = extract_files(fs, f.directory, members, SetToSeq(DOMAIN members))
            /\ dirs' = extract_dirs(dirs, f.directory, members)
            /\ Call(f, "finally",
                    [Frame("install_from_directory") EXCEPT !.directory = f.directory,
                                                            !.expect = f.expect])
  /\ UNCHANGED <<call, fs0, dirs0, log, probe, other>>

\* the unpack directory is removed on the way out only when nothing was raised
unpack_cleanup_dirs_NoFinally(ds, directory, e) ==
  IF e = "none" THEN rmtree_dirs(ds, directory) ELSE ds

\* lines 346-347: `finally: shutil.rmtree(directory)`, the directories afterwards
unpack_cleanup_dirs(ds, directory, e) == rmtree_dirs(ds, directory)

\* lines 346-347: the finally clause runs when install_from_directory has
\* returned and when an exception passes through
IFA_Finally ==
  /\ stack # <<>> /\ Top.fn = "install_from_archive" /\ Top.pc = "finally"
  /\ dirs' = unpack_cleanup_dirs(dirs, Top.directory, exc)
  /\ fs' = IF Top.directory \in dirs' THEN fs ELSE rmtree_files(fs, Top.directory)
  /\ stack' = Popped
  /\ UNCHANGED <<ret, exc, call, fs0, dirs0, log, probe, other>>

---------------------------------------------------------------------------
(* Installer.uninstall (lines 138-149) and Installer.uninstall_directory   *)
(* (lines 151-181).                                                        *)

UN_Start ==
  /\ At("uninstall", "start")
  /\ LET manifest == find_package(fs, dirs, call.inst, Top.name)
     IN IF manifest.status = "PackageNotFound" THEN Return("False")
        ELSE IF manifest.status # "ok" THEN Raise(manifest.status)
        ELSE Call(Top, "done",
                  [Frame("uninstall_directory") EXCEPT !.directory = manifest.directory])
  /\ UNCHANGED <<fs, dirs, call, fs0, dirs0, log, probe, other>>

\* line 149: `return self.uninstall_directory(...)`
UN_Done ==
  /\ At("uninstall", "done")
  /\ Return(ret)
  /\ UNCHANGED <<fs, dirs, call, fs0, dirs0, log, probe, other>>

\* lines 157-161: the handler of InvalidPackageManifest formats its message
\* with `ext`, which is no name (the exception is bound to `exc`): NameError
ud_invalid_manifest == [raises |-> "NameError", returns |-> "none"]

\* without a ledger there is no uninstall
ud_goes_on_LedgerRequired(files, filelist_fn) == IsFile(files, filelist_fn)

\* lines 168-169: a missing ledger is a warning, the uninstall goes on
ud_goes_on(files, filelist_fn) == TRUE

\* lines 157-173: parse the manifest, read the ledger
UD_Start ==
  /\ At("uninstall_directory", "start")
  /\ LET f == Top
         got == get_manifest(fs, PathJoin(f.directory, PACKAGE_JSON))
         installed_files == read_ledger(fs, f.directory)
     IN IF got.status = "InvalidPackageManifest"
          THEN /\ IF ud_invalid_manifest.raises # "none"
                    THEN Raise(ud_invalid_manifest.raises)
                    ELSE Return(ud_invalid_manifest.returns)
               /\ log' = log
        ELSE IF got.status # "ok" THEN Raise(got.status) /\ log' = log
        ELSE IF ~ud_goes_on(fs, PathJoin(f.directory, PPYM_INSTALLED_FILES))
          THEN Return("False") /\ log' = log
        ELSE /\ Goto([f EXCEPT !.manifest = got.manifest,
                               !.installed_files = installed_files], "remove")
             /\ log' = Append(log, Event("read_ledger", f.directory, installed_files))
  /\ UNCHANGED <<fs, dirs, call, fs0, dirs0, probe, other>>

\* lines 175-179
UD_Remove ==
  /\ At("uninstall_directory", "remove")
  /\ fs' = remove_listed(fs, Top.installed_files)
  /\ Goto(Top, "rmtree")
  /\ UNCHANGED <<dirs, call, fs0, dirs0, log, probe, other>>

\* lines 180-181
UD_Rmtree ==
  /\ At("uninstall_directory", "rmtree")
  /\ fs' = rmtree_files(fs, Top.directory)
  /\ dirs' = rmtree_dirs(dirs, Top.directory)
  /\ Return("True")
  /\ UNCHANGED <<call, fs0, dirs0, log, probe, other>>

---------------------------------------------------------------------------
(* An exception passes through the functions that do not handle it.        *)

Unwind ==
  /\ stack # <<>> /\ exc # "none"
  /\ ~(Top.fn = "install_from_archive" /\ Top.pc = "finally")
  /\ stack' = Popped
  /\ UNCHANGED <<fs, dirs, ret, exc, call, fs0, dirs0, log, probe, other>>

---------------------------------------------------------------------------
(* upm dist (main.py, lines 75-90), run in a package's source directory.   *)

\* every file is packed under its base name
dist_arcnames_Basename(rels) == [r \in rels |-> Basename(r)]

\* line 89: archive.add(filename, rel): the name each file is packed under
dist_arcnames(rels) == [r \in rels |-> r]

\* lines 87-89: the members of the archive
dist_members(files, directory, manifest) ==
  LET rels == walk_rels(files, directory, manifest)
      arc == dist_arcnames(rels)
  IN [a \in {arc[r] : r \in rels} |->
        files[PathJoin(directory, CHOOSE r \in rels : arc[r] = a)]]

Dist ==
  /\ Idle
  /\ other = NoOther
  /\ probe.kind = "none"
  /\ call.n < MaxCalls
  /\ \E directory \in {D_SF, D_SG, D_SB} :
       LET got == get_manifest(fs, PathJoin(directory, PACKAGE_JSON))
           filename == ArchivePath(directory, got.manifest)
       IN /\ got.status = "ok"
          /\ dirs' = makedirs(dirs, PathJoin(directory, S_DIST))
          /\ fs' = WriteFile(fs, filename, Tar(dist_members(fs, directory, got.manifest)))
          /\ call' = [op |-> "dist", inst |-> NoInst,
                      frame |-> [Frame0 EXCEPT !.directory = directory],
                      n |-> call.n + 1]
  /\ fs0' = fs
  /\ dirs0' = dirs
  /\ log' = <<>>
  /\ ret' = "none"
  /\ exc' = "none"
  /\ UNCHANGED <<stack, probe, other>>

---------------------------------------------------------------------------
(* The user edits the manifest of an installed package and breaks it, or   *)
(* removes its ledger.                                                     *)

EditManifest ==
  /\ Idle
  /\ other = NoOther
  /\ probe.kind = "none"
  /\ call.n < MaxCalls
  /\ \E directory \in PackageDirectories(NoInst) :
       LET filename == PathJoin(directory, PACKAGE_JSON) IN
       /\ IsFile(fs, filename)
       /\ fs[filename].kind = "manifest"
       /\ fs' = WriteFile(fs, filename, InvalidManifestFile)
       /\ call' = [op |-> "edit", inst |-> NoInst,
                   frame |-> [Frame0 EXCEPT !.directory = directory],
                   n |-> call.n + 1]
  /\ fs0' = fs
  /\ dirs0' = dirs
  /\ log' = <<>>
  /\ ret' = "none"
  /\ exc' = "none"
  /\ UNCHANGED <<dirs, stack, probe, other>>

\* the user removes the ledger of an installed package
RemoveLedger ==
  /\ Idle
  /\ other = NoOther
  /\ probe.kind = "none"
  /\ call.n < MaxCalls
  /\ \E directory \in PackageDirectories(NoInst) :
       LET filename == PathJoin(directory, PPYM_INSTALLED_FILES) IN
       /\ IsFile(fs, filename)
       /\ fs' = RemoveFile(fs, filename)
       /\ call' = [op |-> "edit", inst |-> NoInst,
                   frame |-> [Frame0 EXCEPT !.directory = directory],
                   n |-> call.n + 1]
  /\ fs0' = fs
  /\ dirs0' = dirs
  /\ log' = <<>>
  /\ ret' = "none"
  /\ exc' = "none"
  /\ UNCHANGED <<dirs, stack, probe, other>>

---------------------------------------------------------------------------

Next ==
  \/ CallInstallFromDirectory
  \/ CallInstallFromArchive
  \/ CallInstallFromRegistry
  \/ CallInstallDependencies
  \/ CallUninstall
  \/ CallUninstallDirectory
  \/ IFD_Start
  \/ IFD_Uninstalled
  \/ IFD_Deps
  \/ IFD_DepsDone
  \/ IFD_Makedirs
  \/ IFD_Copy
  \/ IFD_Scripts
  \/ IFD_Ledger
  \/ IFD_Postinstall
  \/ IDF_Start
  \/ IDF_DepsDone
  \/ IDF_Python
  \/ ID_Scan
  \/ ID_Loop
  \/ IFR_Start
  \/ IFR_Find
  \/ IFR_Download
  \/ IFA_Start
  \/ IFA_Extract
  \/ IFA_Finally
  \/ UN_Start
  \/ UN_Done
  \/ UD_Start
  \/ UD_Remove
  \/ UD_Rmtree
  \/ Unwind
  \/ Dist
  \/ EditManifest
  \/ RemoveLedger

Spec == Init /\ [][Next]_vars

---------------------------------------------------------------------------
(* Two invocations of the tool at the same time in one project.  Nothing   *)
(* in install.py takes a lock, so the steps of the two interleave in any   *)
(* order; one of the two runs, the other is kept in `other`.               *)

ConcurrentInst == [upgrade |-> FALSE, strict |-> FALSE, global_ |-> FALSE]

InstallCall(directory) ==
  [op |-> "install_from_directory",
   frame |-> [Frame("install_from_directory") EXCEPT !.directory = directory]]

UninstallCall(name) ==
  [op |-> "uninstall", frame |-> [Frame("uninstall") EXCEPT !.name = name]]

\* two installs of foo from two directories, or an install and an uninstall
ConcurrentPairs ==
  {<<InstallCall(D_SF), InstallCall(D_SG)>>, <<InstallCall(D_SG), UninstallCall(N_FOO)>>}

\* both invocations start
StartPair ==
  /\ Idle
  /\ other = NoOther
  /\ probe.kind = "none"
  /\ call.n + 2 <= MaxCalls
  /\ \E pair \in ConcurrentPairs :
       /\ stack' = <<pair[1].frame>>
       /\ call' = [op |-> pair[1].op, inst |-> ConcurrentInst, frame |-> pair[1].frame,
                   n |-> call.n + 2]
       /\ other' = [stack |-> <<pair[2].frame>>, ret |-> "none", exc |-> "none",
                    call |-> [op |-> pair[2].op, inst |-> ConcurrentInst,
                              frame |-> pair[2].frame, n |-> call.n + 2],
                    log |-> <<>>]
  /\ ret' = "none"
  /\ exc' = "none"
  /\ fs0' = fs
  /\ dirs0' = dirs
  /\ log' = <<>>
  /\ UNCHANGED <<fs, dirs, probe>>

\* the scheduler lets the other invocation run
Switch ==
  /\ other # NoOther
  /\ other.stack # <<>>
  /\ stack' = other.stack
  /\ ret' = other.ret
  /\ exc' = other.exc
  /\ call' = other.call
  /\ log' = other.log
  /\ other' = [stack |-> stack, ret |-> ret, exc |-> exc, call |-> call, log |-> log]
  /\ UNCHANGED <<fs, dirs, fs0, dirs0, probe>>

NextConcurrent == Next \/ StartPair \/ Switch

SpecConcurrent == Init /\ [][NextConcurrent]_vars

\* the top-level call has ended
Done == Idle /\ call.op \notin {"none", "dist", "edit"}

---------------------------------------------------------------------------
(* Claims about the file filter, checked under SpecFilter.                 *)

Matches(path, patterns) == \E pat \in Range(patterns) : fnmatch(path, pat)

\* C4: walk_package_files always yields the manifest file, and for
\* include_files = ["*.txt"] over a directory holding package.json, a.txt,
\* b.py and .git/config it yields exactly {package.json, a.txt}.
C4_AsClaimed ==
  (probe.kind = "walk" /\ probe.done) =>
    /\ PACKAGE_JSON \in probe.yielded
    /\ (probe.includes = <<PAT_TXT>> /\ probe.files = {F_A_TXT, F_B_PY, F_GIT_CONFIG})
         => probe.yielded = {PACKAGE_JSON, F_A_TXT}

\* C5: _check_include_file(p, includes, excludes) is true exactly when p
\* matches no exclude pattern and (includes is empty or p matches an include
\* pattern).
C5_CheckIncludeFile ==
  (probe.kind = "check" /\ probe.done) =>
    (probe.ok <=> (/\ ~Matches(probe.path, probe.excludes)
                   /\ (probe.includes = <<>> \/ Matches(probe.path, probe.includes))))

\* a path that matches an include and an exclude pattern was rejected
C5_Witness ==
  /\ probe.kind = "check" /\ probe.done
  /\ Matches(probe.path, probe.includes)
  /\ Matches(probe.path, probe.excludes)
  /\ ~probe.ok

---------------------------------------------------------------------------
(* Claims about the Installer, checked under Spec.                         *)

Frames == {stack[i] : i \in 1..Len(stack)}
Events(ev) == SelectSeq(log, LAMBDA e : e.ev = ev)
ManifestAt(files, directory) == get_manifest(files, PathJoin(directory, PACKAGE_JSON))
TargetOf(manifest) == PathJoin(InstallerDirs(call.inst).packages, manifest.name)

\* the call is install_from_directory without upgrade, on a directory with a
\* valid manifest, with no `expect` or one the manifest meets, and the target
\* directory exists when the call starts
C1_Case ==
  /\ call.op = "install_from_directory"
  /\ ~call.inst.upgrade
  /\ LET got == ManifestAt(fs0, call.frame.directory) IN
     IF got.status # "ok" THEN FALSE
     ELSE /\ \/ call.frame.expect = NoExpect
             \/ call.frame.expect = [name |-> got.manifest.name,
                                     version |-> got.manifest.version]
          /\ Exists(fs0, dirs0, TargetOf(got.manifest))

C2_Directory ==
  IF call.op = "uninstall_directory" THEN call.frame.directory
  ELSE LET package == find_package(fs0, dirs0, call.inst, call.frame.name)
       IN IF package.status = "ok" THEN package.directory ELSE <<>>

\* an uninstall of a directory that holds a valid manifest and a ledger
C2_Case ==
  /\ call.op \in {"uninstall", "uninstall_directory"}
  /\ C2_Directory # <<>>
  /\ ManifestAt(fs0, C2_Directory).status = "ok"
  /\ IsFile(fs0, PathJoin(C2_Directory, PPYM_INSTALLED_FILES))

\* p is one whole line of the text
C2_Listed(text, p) ==
  \E i \in 1..Len(text) :
    /\ i = 1 \/ text[i - 1] = NL
    /\ i + Len(p) <= Len(text)
    /\ SubSeq(text, i, i + Len(p)) = p \o <<NL>>

\* the files the ledger lists, as they were when the uninstall started
C2_Recorded ==
  {p \in DOMAIN fs0 :
     C2_Listed(fs0[PathJoin(C2_Directory, PPYM_INSTALLED_FILES)].text, p)}

\* C2: the ledger install_from_directory writes reads back as the paths it
\* recorded, each of them a file (copied files and launchers in bin); and an
\* uninstall of such a package returns True and leaves none of the recorded
\* paths and nothing of the package directory.
C2_UninstallRemovesRecorded ==
  /\ \A f \in Frames :
       (f.fn = "install_from_directory" /\ f.pc = "postinstall") =>
         /\ read_ledger(fs, f.target_dir) = f.installed_files
         /\ \A q \in Range(f.installed_files) : IsFile(fs, q)
  /\ (Done /\ C2_Case) =>
       /\ exc = "none"
       /\ ret = "True"
       /\ ~Exists(fs, dirs, C2_Directory)
       /\ FilesBelow(fs, C2_Directory) = {}
       /\ \A q \in C2_Recorded : ~IsFile(fs, q)

\* a package with copied files and a launcher in bin was uninstalled
C2_Witness ==
  /\ Done
  /\ C2_Case
  /\ ret = "True"
  /\ Cardinality(C2_Recorded) >= 3
  /\ \E q \in C2_Recorded : Under(LOCAL_BIN, q)
  /\ \E q \in C2_Recorded : Under(C2_Directory, q)

\* install_from_directory with upgrade, its target directory existing when
\* the call started, at a point after the uninstall and before its first write
C3_Removed(f) ==
  /\ f.fn = "install_from_directory"
  /\ f.pc \in {"deps", "deps_done", "makedirs"}
  /\ call.inst.upgrade
  /\ Exists(fs0, dirs0, f.target_dir)

\* C3: with upgrade, install_from_directory into an existing target directory
\* writes nothing while the prior installation is being removed, and when it
\* comes to its first write the old directory is gone and no file of the
\* prior ledger exists.
C3_UpgradeRemovesFirst ==
  \A f \in Frames :
    /\ C3_Removed(f) =>
         /\ ~Exists(fs, dirs, f.target_dir)
         /\ FilesBelow(fs, f.target_dir) = {}
         /\ \A q \in Range(read_ledger(fs0, f.target_dir)) : ~IsFile(fs, q)
    /\ (f.fn = "install_from_directory" /\ f.pc = "uninstalled") =>
         /\ Events("makedirs") = <<>>
         /\ Events("copy") = <<>>
         /\ Events("scripts") = <<>>
         /\ Events("ledger") = <<>>

\* an upgrade has removed a prior installation that had a launcher in bin
C3_Witness ==
  \E f \in Frames :
    /\ C3_Removed(f)
    /\ f.pc = "makedirs"
    /\ \E q \in Range(read_ledger(fs0, f.target_dir)) : Under(LOCAL_BIN, q) /\ IsFile(fs0, q)
    /\ ~Exists(fs, dirs, f.target_dir)

\* install_from_archive of the archive dist made of the directory, the
\* package not installed when the call starts, the installation written
C6_Case(directory) ==
  LET got == ManifestAt(fs0, directory)
      archive == ArchivePath(directory, got.manifest)
  IN /\ call.op = "install_from_archive"
     /\ call.frame.archive = archive
     /\ IsFile(fs0, archive)
     /\ fs0[archive] = Tar(dist_members(fs0, directory, got.manifest))
     /\ ~Exists(fs0, dirs0, TargetOf(got.manifest))
     /\ Events("ledger") # <<>>

\* C6: dist on a package directory, then install_from_archive of the archive
\* for a package not yet installed, leaves below the target directory exactly
\* the relative paths walk_package_files selects in the original directory,
\* each with its content, plus the ledger; the launchers are in bin.
C6_DistInstallRoundTrip ==
  \A directory \in {D_SF, D_SG, D_SB} :
    (Done /\ C6_Case(directory)) =>
      LET manifest == ManifestAt(fs0, directory).manifest
          target_dir == TargetOf(manifest)
          rels == walk_rels(fs0, directory, manifest)
          entries == launcher_entries(manifest, target_dir)
      IN /\ FilesBelow(fs, target_dir) = rels \cup {PPYM_INSTALLED_FILES}
         /\ \A r \in rels : fs[PathJoin(target_dir, r)] = fs0[PathJoin(directory, r)]
         /\ \A i \in 1..Len(entries) :
              IsFile(fs, LauncherPath(InstallerDirs(call.inst).bin, entries[i].name))

\* the archive of a directory with an excluded file was installed
C6_Witness ==
  /\ Done
  /\ C6_Case(D_SF)
  /\ ret = "True"
  /\ FilesBelow(fs, TargetOf(FooManifest1)) = {PACKAGE_JSON, F_A_TXT, F_B_PY, PPYM_INSTALLED_FILES}
  /\ FilesBelow(fs0, D_SF) # FilesBelow(fs, TargetOf(FooManifest1)) \ {PPYM_INSTALLED_FILES}

\* the dependency is installed, at a version its selector accepts
C7_Satisfied(d) ==
  LET package == find_package(fs0, dirs0, call.inst, d.name)
  IN IF package.status # "ok" THEN FALSE ELSE package.manifest.version \in d.selector

\* C7: install_dependencies never calls install_from_registry for a
\* dependency that is installed at a version its selector accepts; when every
\* dependency is such, it returns True with no call to the registry and no
\* change of the file system.
C7_SatisfiedNotInstalled ==
  call.op = "install_dependencies" =>
    /\ \A d \in Range(call.frame.deps) :
         C7_Satisfied(d) => \A e \in Range(log) :
                              e.ev = "install_from_registry" => e.a # d.name
    /\ (\A d \in Range(call.frame.deps) : C7_Satisfied(d)) =>
         /\ log = <<>>
         /\ fs = fs0
         /\ dirs = dirs0
         /\ exc = "none"
         /\ Idle => ret = "True"

\* two satisfied dependencies, one of them found in the global directory
C7_Witness ==
  /\ Done
  /\ call.op = "install_dependencies"
  /\ Len(call.frame.deps) = 2
  /\ \A d \in Range(call.frame.deps) : C7_Satisfied(d)
  /\ ret = "True"

\* the dependencies for which find_package fails when the call starts
C8_Failing ==
  SelectSeq(call.frame.deps,
            LAMBDA d : find_package(fs0, dirs0, call.inst, d.name).status # "ok")

\* the calls of install_from_registry made so far, as dependencies
C8_Calls ==
  LET calls == Events("install_from_registry")
  IN [i \in 1..Len(calls) |-> Dep(calls[i].a, calls[i].b)]

\* C8: install_dependencies calls install_from_registry for the dependencies
\* for which find_package fails, in their order, each once and with its own
\* selector, and goes on to the next unless the call before failed: the first
\* of them is always called.
C8_AsClaimed ==
  call.op = "install_dependencies" =>
    /\ IsPrefix(C8_Calls, C8_Failing)
    /\ \A i, j \in 1..Len(C8_Calls) : C8_Calls[i].name = C8_Calls[j].name => i = j
    /\ (Idle /\ C8_Failing # <<>>) => Len(C8_Calls) >= 1

\* a path tempfile made
IsScratch(q) == IsPrefix(S_TMP, q)

\* C9: a scratch directory exists only while the install_from_archive that
\* made it is running, and no scratch file or directory is left when a call
\* has ended, whether it returned True, returned False or raised; the code of
\* install_from_registry makes no temporary file at all.
C9_ScratchRemoved ==
  /\ \A q \in dirs \cup DOMAIN fs :
       IsScratch(q) =>
         \E f \in Frames : /\ f.fn = "install_from_archive"
                           /\ q = f.directory \/ Under(f.directory, q)
  /\ Idle => \A q \in dirs \cup DOMAIN fs : ~IsScratch(q)

\* install_from_archive made its directory and ended with an exception
C9_Witness ==
  /\ Done
  /\ call.op = "install_from_archive"
  /\ exc # "none"
  /\ Events("mkdtemp") # <<>>
  /\ \A q \in dirs \cup DOMAIN fs : ~IsScratch(q)

\* C10: uninstall_directory on a directory whose manifest is invalid returns
\* False without raising and leaves the directory and every file in place.
C10_AsClaimed ==
  (/\ Done
   /\ call.op = "uninstall_directory"
   /\ ManifestAt(fs0, call.frame.directory).status = "InvalidPackageManifest") =>
    /\ exc = "none"
    /\ ret = "False"
    /\ fs = fs0
    /\ dirs = dirs0

\* the manifest file a strict lookup of the call's package looks at
C11_StrictFile ==
  PathJoin(PathJoin(InstallerDirs(call.inst).packages, call.frame.name), PACKAGE_JSON)

\* a strict Installer looks a package up by name
C11_Case ==
  /\ call.op \in {"uninstall", "install_from_registry"}
  /\ call.inst.strict

\* C11: with strict, find_package finds a package only if
\* <packages>/<name>/package.json is a file; a package that only the
\* resolution session resolves is PackageNotFound (uninstall returns False and
\* removes nothing, install_from_registry goes on to the registry), and what
\* the session would resolve has no part in the result.
C11_StrictLookup ==
  C11_Case =>
    /\ find_package(fs0, dirs0, call.inst, call.frame.name).status # "PackageNotFound"
         <=> IsFile(fs0, C11_StrictFile)
    /\ find_package(fs0, dirs0, call.inst, call.frame.name)
         = find_package(fs0, {}, call.inst, call.frame.name)
    /\ (Idle /\ ~IsFile(fs0, C11_StrictFile)) =>
         IF call.op = "uninstall"
           THEN ret = "False" /\ exc = "none" /\ fs = fs0 /\ dirs = dirs0
           ELSE Events("reg.find_package") # <<>>
    /\ (Idle /\ call.op = "uninstall" /\ ret = "True") => IsFile(fs0, C11_StrictFile)

\* a strict local uninstall did not find the package that the resolution
\* session resolves to the global directory
C11_Witness ==
  /\ Done
  /\ C11_Case
  /\ call.op = "uninstall"
  /\ ~call.inst.global_
  /\ Resolve(dirs0, call.frame.name).status = "ok"
  /\ IsFile(fs0, PathJoin(Resolve(dirs0, call.frame.name).directory, PACKAGE_JSON))
  /\ ret = "False"
  /\ fs = fs0

\* an uninstall of a directory that holds a valid manifest and no ledger
C12_Case ==
  /\ call.op \in {"uninstall", "uninstall_directory"}
  /\ C2_Directory # <<>>
  /\ ManifestAt(fs0, C2_Directory).status = "ok"
  /\ ~IsFile(fs0, PathJoin(C2_Directory, PPYM_INSTALLED_FILES))

\* C12: uninstalling a package whose ledger was removed raises nothing,
\* returns True and removes the package directory with all below it; every
\* file and directory outside the package directory stays as it was, at every
\* point of the call.
C12_MissingLedger ==
  C12_Case =>
    /\ exc = "none"
    /\ \A q \in DOMAIN fs0 :
         ~Under(C2_Directory, q) => IsFile(fs, q) /\ fs[q] = fs0[q]
    /\ \A d \in dirs0 : (d # C2_Directory /\ ~Under(C2_Directory, d)) => d \in dirs
    /\ DOMAIN fs \subseteq DOMAIN fs0
    /\ dirs \subseteq dirs0
    /\ Idle =>
         /\ ret = "True"
         /\ ~Exists(fs, dirs, C2_Directory)
         /\ FilesBelow(fs, C2_Directory) = {}

\* a package with files and a launcher was uninstalled without its ledger:
\* the directory is gone, the launcher in bin is still there
C12_Witness ==
  /\ Done
  /\ C12_Case
  /\ ret = "True"
  /\ Cardinality(FilesBelow(fs0, C2_Directory)) >= 2
  /\ ~Exists(fs, dirs, C2_Directory)
  /\ \E q \in DOMAIN fs : Under(LOCAL_BIN, q)

\* install_from_registry without upgrade for a package find_package finds
C13_Case ==
  /\ call.op = "install_from_registry"
  /\ ~call.inst.upgrade
  /\ find_package(fs0, dirs0, call.inst, call.frame.name).status = "ok"

\* C13: install_from_registry without upgrade, for a package find_package
\* finds, returns True with no call of the registry client and no change of
\* the file system, whether or not the installed version meets the selector.
C13_InstalledNotFetched ==
  C13_Case =>
    /\ log = <<>>
    /\ fs = fs0
    /\ dirs = dirs0
    /\ exc = "none"
    /\ Idle => ret = "True"

\* the installed version did not meet the selector, and the call returned True
C13_Witness ==
  /\ Done
  /\ C13_Case
  /\ find_package(fs0, dirs0, call.inst, call.frame.name).manifest.version
       \notin call.frame.selector
  /\ ret = "True"

\* the postinstall script the call came to, <<>> when it came to none
C14_Script ==
  IF Events("postinstall") = <<>> THEN <<>> ELSE Events("postinstall")[1].a

\* an install that came to the postinstall script of its manifest
C14_Case ==
  /\ call.op \in {"install_from_directory", "install_from_archive"}
  /\ C14_Script # <<>>

\* the scripts of the packages here are files that do nothing: such a script
\* runs without failure when it is there, and fails when it is missing
C14_ScriptFails == ~IsFile(fs, C14_Script)

\* C14: when the postinstall script fails, install_from_directory returns
\* False and the copied files, the launchers and the ledger stay on disk; when
\* the script runs without failure, the install returns True.
C14_AsClaimed ==
  (Done /\ C14_Case) =>
    /\ exc = "none"
    /\ \A e \in Range(Events("ledger")) :
         /\ IsFile(fs, e.a)
         /\ \A q \in Range(e.b) : IsFile(fs, q)
    /\ C14_ScriptFails => ret = "False"
    /\ ~C14_ScriptFails => ret = "True"


---------------------------------------------------------------------------
(* C15: the loop of install_dependencies over its queue.                   *)

\* the dependencies install_dependencies queues: not found when it starts
C15_Queued ==
  SelectSeq(call.frame.deps,
            LAMBDA d : find_package(fs0, dirs0, call.inst, d.name).status = "PackageNotFound")

\* no installed dependency has a manifest that cannot be read
C15_Case ==
  /\ call.op = "install_dependencies"
  /\ C15_Queued # <<>>
  /\ \A d \in Range(call.frame.deps) :
       find_package(fs0, dirs0, call.inst, d.name).status # "InvalidPackageManifest"

\* C15: install_dependencies installs the queued dependencies in order and
\* stops at the first install_from_registry that returns failure: unless the
\* registry fails, the call returns; it returns True with every queued
\* dependency installed, or False after a call of install_from_registry
\* returned False, with no later dependency attempted.
C15_AsClaimed ==
  (Done /\ C15_Case /\ exc \notin {"RegistryError", "NotFoundOnRegistry"}) =>
    /\ exc = "none"
    /\ IsPrefix(C8_Calls, C15_Queued)
    /\ ret = "True" =>
         \A d \in Range(C15_Queued) : find_package(fs, dirs, call.inst, d.name).status = "ok"
    /\ ret = "False" => Len(C8_Calls) \in 1..Len(C15_Queued)

---------------------------------------------------------------------------
(* C17: the order of the steps of install_from_directory.                  *)

\* the index of the first event of the log that is one of `evs`, or 0
C17_First(evs) ==
  IF \E i \in 1..Len(log) : log[i].ev \in evs
    THEN CHOOSE i \in 1..Len(log) : log[i].ev \in evs /\ \A j \in 1..(i - 1) : log[j].ev \notin evs
    ELSE 0

\* the index of the last event of the log that is one of `evs`, or 0
C17_Last(evs) ==
  IF \E i \in 1..Len(log) : log[i].ev \in evs
    THEN CHOOSE i \in 1..Len(log) : log[i].ev \in evs /\ \A j \in (i + 1)..Len(log) : log[j].ev \notin evs
    ELSE 0

C17_Target == TargetOf(ManifestAt(fs0, call.frame.directory).manifest)

\* install_from_directory in upgrade mode removed the installed package, and
\* install_dependencies_for returned False after that
C17_Case ==
  /\ call.op = "install_from_directory"
  /\ call.inst.upgrade
  /\ ManifestAt(fs0, call.frame.directory).status = "ok"
  /\ Exists(fs0, dirs0, C17_Target)
  /\ \E e \in Range(Events("read_ledger")) : e.a = C17_Target
  /\ \E e \in Range(Events("deps_failed")) : e.a = C17_Target

\* C17: install_from_directory uninstalls the existing target first (in
\* upgrade mode only), resolves the dependencies next and creates the target
\* directory last; when the dependencies fail after the removal, the call
\* returns False with the target directory absent and nothing written.
C17_DepsBeforeTarget ==
  call.op = "install_from_directory" =>
    /\ Events("read_ledger") # <<>> => call.inst.upgrade
    /\ LET removal == C17_Last({"read_ledger"})
           deps == {"pip", "install_from_registry", "deps_failed"}
           written == C17_First({"makedirs", "copy", "scripts", "ledger"})
       IN /\ (removal # 0 /\ C17_First(deps) # 0) => removal < C17_First(deps)
          /\ (removal # 0 /\ written # 0) => removal < written
          /\ (written # 0 /\ C17_Last(deps) # 0) => C17_Last(deps) < written
    /\ C17_Case =>
         /\ exc = "none"
         /\ Idle => ret = "False"
         /\ ~Exists(fs, dirs, C17_Target)
         /\ FilesBelow(fs, C17_Target) = {}
         /\ \A e \in Range(log) : e.ev \notin {"makedirs", "copy", "scripts", "ledger", "postinstall"}

\* bar, installed with its dependency foo, is upgraded and pip fails
C17_Witness ==
  /\ Done
  /\ C17_Case
  /\ ret = "False"
  /\ FilesBelow(fs0, C17_Target) # {}
  /\ ~Exists(fs, dirs, C17_Target)

---------------------------------------------------------------------------
(* C18: install_from_directory with an `expect` the manifest does not meet.*)

\* expect is given and differs from the manifest of the directory
C18_Case ==
  /\ call.op = "install_from_directory"
  /\ call.frame.expect # NoExpect
  /\ ManifestAt(fs0, call.frame.directory).status = "ok"
  /\ LET manifest == ManifestAt(fs0, call.frame.directory).manifest
     IN manifest.name # call.frame.expect.name \/ manifest.version # call.frame.expect.version

\* C18: when expect is given and differs from the manifest's (name, version),
\* install_from_directory returns False with no change of the file system,
\* with or without upgrade: nothing is uninstalled, no dependency is
\* installed and no file is copied.
C18_ExpectMismatch ==
  C18_Case =>
    /\ fs = fs0
    /\ dirs = dirs0
    /\ log = <<>>
    /\ exc = "none"
    /\ Len(stack) <= 1
    /\ Idle => ret = "False"

\* foo@1 is installed; sf (foo@1) is installed with upgrade and expect foo@2
C18_Witness ==
  /\ Done
  /\ C18_Case
  /\ call.inst.upgrade
  /\ ManifestAt(fs0, call.frame.directory).manifest.name = call.frame.expect.name
  /\ Exists(fs0, dirs0, TargetOf(ManifestAt(fs0, call.frame.directory).manifest))
  /\ ret = "False"

---------------------------------------------------------------------------
(* C19: install_from_registry comes to an end.                             *)

\* the package is not installed when the call starts, the registry has a
\* version the selector accepts, and the registry does not fail
C19_Case ==
  /\ call.op = "install_from_registry"
  /\ find_package(fs0, dirs0, call.inst, call.frame.name).status = "PackageNotFound"
  /\ RegistryIndex(call.frame.name) \cap call.frame.selector # {}
  /\ exc # "RegistryError"

\* C19: install_from_registry, with the chain of install_from_archive,
\* install_from_directory and install_dependencies it starts, returns: the
\* call ends with a result, True with the package installed or False.
C19_AsClaimed ==
  (Done /\ C19_Case) =>
    /\ exc = "none"
    /\ ret \in {"True", "False"}
    /\ ret = "True" => find_package(fs, dirs, call.inst, call.frame.name).status = "ok"

---------------------------------------------------------------------------
(* C20: an uninstall leaves the files of the other packages alone.         *)

\* the directories of the packages that are installed, with a ledger, before
\* the call and are still installed after it
C20_StillInstalled ==
  {d \in dirs0 : /\ IsFile(fs0, PathJoin(d, PACKAGE_JSON))
                 /\ IsFile(fs0, PathJoin(d, PPYM_INSTALLED_FILES))
                 /\ IsFile(fs, PathJoin(d, PACKAGE_JSON))}

\* C20: uninstalling a package deletes only paths recorded in its own ledger
\* and its package directory: no file recorded in the ledger of another
\* package that is still installed is removed, the launchers in the shared
\* bin directory included.
C20_AsClaimed ==
  (Done /\ call.op \in {"uninstall", "uninstall_directory"}) =>
    \A d \in C20_StillInstalled :
      \A q \in Range(read_ledger(fs0, d)) : IsFile(fs0, q) => IsFile(fs, q)

---------------------------------------------------------------------------
(* C16: two invocations at the same time, checked under SpecConcurrent.    *)

\* both invocations have come to an end
C16_Ended == other # NoOther /\ stack = <<>> /\ other.stack = <<>>

C16_Target == TargetOf(FooManifest1)
C16_LedgerFile == PathJoin(C16_Target, PPYM_INSTALLED_FILES)

\* the files in the package directory that the ledger does not list
C16_Missed ==
  {q \in {PathJoin(C16_Target, r) : r \in FilesBelow(fs, C16_Target)} :
     q # C16_LedgerFile /\ q \notin Range(read_ledger(fs, C16_Target))}

\* the files the ledger lists that do not exist
C16_Dangling == {q \in Range(read_ledger(fs, C16_Target)) : ~IsFile(fs, q)}

\* the steps of the invocation that ran op, whichever of the two it is
C16_Steps(op, ev) ==
  IF call.op = op THEN Events(ev)
  ELSE IF other.call.op = op THEN SelectSeq(other.log, LAMBDA e : e.ev = ev)
  ELSE <<>>

\* C16: there is no locking, so there are interleavings of two invocations
\* that leave the installed package corrupt.  Two installs of a package from
\* two directories that both got to write the ledger leave a ledger that
\* misses files of the package directory; an install whose files an uninstall
\* removed before the ledger was written leaves a ledger that lists files
\* that do not exist.
C16_RaceCorrupts ==
  C16_Ended =>
    /\ ( /\ call.op = "install_from_directory"
         /\ other.call.op = "install_from_directory"
         /\ Events("ledger") # <<>>
         /\ SelectSeq(other.log, LAMBDA e : e.ev = "ledger") # <<>> )
       => (IsFile(fs, C16_LedgerFile) /\ C16_Missed # {})
    /\ ( /\ {call.op, other.call.op} = {"install_from_directory", "uninstall"}
         /\ find_package(fs0, dirs0, ConcurrentInst, N_FOO).status = "PackageNotFound"
         /\ C16_Steps("install_from_directory", "ledger") # <<>>
         /\ C16_Steps("uninstall", "read_ledger") # <<>>
         /\ IsFile(fs, C16_LedgerFile) )
       => C16_Dangling # {}

\* two installs ran to their end, the two returned and the ledger misses
\* files that are in the package directory
C16_Witness ==
  /\ C16_Ended
  /\ call.op = "install_from_directory"
  /\ other.call.op = "install_from_directory"
  /\ Events("ledger") # <<>>
  /\ SelectSeq(other.log, LAMBDA e : e.ev = "ledger") # <<>>
  /\ exc = "none" /\ other.exc = "none"
  /\ IsFile(fs, C16_LedgerFile)
  /\ C16_Missed # {}

\* an uninstall removed what an install had copied, and the ledger of the
\* install lists files that are gone
C16_WitnessUninstall ==
  /\ C16_Ended
  /\ {call.op, other.call.op} = {"install_from_directory", "uninstall"}
  /\ find_package(fs0, dirs0, ConcurrentInst, N_FOO).status = "PackageNotFound"
  /\ IsFile(fs, C16_LedgerFile)
  /\ C16_Dangling # {}
=============================================================================
